---- MODULE Spec2Model ----
(***************************************************************************)
(* Model of the update subsystem of dagr-device:                           *)
(*   src/src/version.py         VersionManager                             *)
(*   src/src/update_manager.py  UpdateManager                              *)
(* Processes are operating-system processes that import the module-level   *)
(* update_manager / version_manager singletons (the web server, the        *)
(* dagr_update command): they share the installation directory, the backup *)
(* directory and the service, and each has its own in-memory               *)
(* current_version.                                                        *)
(*                                                                         *)
(* A version string MAJOR.MINOR.PATCH[-SUFFIX] is the tuple                *)
(* <<major, minor, patch, suffix>>; a path is the sequence of its          *)
(* components; a directory tree is a function from the paths of its files  *)
(* to their contents.  The content of a file is the version string of the  *)
(* release the file belongs to (for VERSION: the text of the file).        *)
(***************************************************************************)
EXTENDS Integers, Sequences, FiniteSets, TLC

\* ------------------------------------------------------------- bounds
\* Calls of perform_update / rollback_to_backup made in one behaviour.
MaxCalls == 2
\* Seconds of wall-clock time that can pass (default backup names).
MaxTime == 2
\* Direct calls of create_backup made in one behaviour.
MaxBackupCalls == 2
\* Largest MAJOR, MINOR or PATCH number of the versions compared in SpecCompare.
MaxPart == 1
\* Rotation threads started in one behaviour.
MaxWorkers == 3
\* Demo images the display manager rotates through.
NumImages == 2
WorkerIds == 1..MaxWorkers

Procs == {"p1", "p2"}

\* The processes are alike: the one named p1 is the one that calls first.
MayCall(p, n) == p = "p1" \/ n > 0

\* ------------------------------------------------------------- versions
NoFile == <<>>

V(maj, min, pat, sfx) == <<maj, min, pat, sfx>>

\* get_current_version's default when the VERSION file is missing.
ZeroVersion == V(0, 0, 0, "")

\* The text of a VERSION file is the version string, possibly followed by a
\* newline: the tuple of an unsuffixed version with Newline in the suffix's
\* place.
Newline == "\n"

\* str.strip
Strip(text) ==
    IF text = NoFile THEN NoFile
    ELSE [text EXCEPT ![4] = IF @ = Newline THEN "" ELSE @]

\* Suffixes that packaging.version.parse accepts after "MAJOR.MINOR.PATCH-"
\* and the PEP 440 segment each one is normalised to.
PreReleaseRank(sfx) ==
    CASE sfx = "dev" -> 0
      [] sfx \in {"a", "alpha"} -> 1
      [] sfx \in {"b", "beta"} -> 2
      [] sfx \in {"rc", "c", "pre", "preview"} -> 3
      [] sfx = "" -> 4
      [] sfx = "post" -> 5

ParsableSuffixes ==
    {"dev", "a", "alpha", "b", "beta", "rc", "c", "pre", "preview", "", "post"}

\* version.parse(s): raises InvalidVersion for any other suffix.
ParseRaises(s) == s = NoFile \/ s[4] \notin ParsableSuffixes

\* The sort key of a parsed Version: release numbers, then the segment rank.
ParseKey(s) == <<s[1], s[2], s[3], PreReleaseRank(s[4])>>

RECURSIVE LexLess(_, _, _)
LexLess(k1, k2, i) ==
    IF i > Len(k1) THEN FALSE
    ELSE IF k1[i] < k2[i] THEN TRUE
    ELSE IF k1[i] > k2[i] THEN FALSE
    ELSE LexLess(k1, k2, i + 1)

\* VersionManager.compare_versions
compare_versions(version1, version2) ==
    IF ParseRaises(version1) \/ ParseRaises(version2) THEN 0
    ELSE IF LexLess(ParseKey(version1), ParseKey(version2), 1) THEN -1
    ELSE IF LexLess(ParseKey(version2), ParseKey(version1), 1) THEN 1
    ELSE 0

\* Mutant: a version equal to the current one counts as newer.
is_newer_or_equal(cur, remote_version) ==
    compare_versions(cur, remote_version) <= 0

\* VersionManager.is_newer_version_available, for a process whose in-memory
\* current_version is cur.
is_newer_version_available(cur, remote_version) ==
    compare_versions(cur, remote_version) < 0

\* ------------------------------------------------------------- paths
VERSION == <<"VERSION">>
SrcFile == <<"src", "dagr.py">>
CfgFile == <<"config", "settings.json">>

\* Files of the installation (relative to project_root).
InstPaths == {VERSION, SrcFile, CfgFile}

\* Files a release can add: a new source file, and a file below a
\* sub-directory of config/backups.
NewSrcFile == <<"src", "new.py">>
OldBackupFile == <<"config", "backups", "old", "a.txt">>
AddedPaths == {NewSrcFile, OldBackupFile}

IsPrefix(pre, path) ==
    /\ Len(pre) <= Len(path)
    /\ SubSeq(path, 1, Len(pre)) = pre

\* Path.relative_to
RelativeTo(path, root) == SubSeq(path, Len(root) + 1, Len(path))

\* Names that end in ".json".
JsonNames == {"settings.json", "tokens.json", ".json"}

\* fnmatch of one path component against one pattern component.
FnMatch(name, pat) ==
    CASE pat = "*" -> TRUE
      [] pat = "*.json" -> name \in JsonNames
      [] OTHER -> name = pat

\* PurePath.match with a relative pattern: matched from the right.
PathMatch(path, pat) ==
    /\ Len(pat) <= Len(path)
    /\ \A i \in 1..Len(pat) : FnMatch(path[Len(path) - Len(pat) + i], pat[i])

\* pattern.replace("*", ""), component by component.
StripStar(c) ==
    CASE c = "*" -> ""
      [] c = "*.json" -> ".json"
      [] OTHER -> c

\* name.startswith(pre) for the names of the model.
NameStartsWith(name, pre) == pre = "" \/ pre = name

\* str(rel_path).startswith(pattern.replace("*", ""))
StrStartsWith(path, pat) ==
    /\ Len(pat) <= Len(path)
    /\ \A i \in 1..(Len(pat) - 1) : path[i] = StripStar(pat[i])
    /\ NameStartsWith(path[Len(pat)], StripStar(pat[Len(pat)]))

\* update_config["excluded_files"] (the default configuration).
excluded_patterns ==
    { <<"config", "*.json">>, <<"config", "tokens.json">>,
      <<"config", ".key">>, <<"config", "backups", "*">> }

\* Mutant: only the prefix test, without the glob match.
should_exclude_prefix_only(rel_path) ==
    \E pattern \in excluded_patterns : StrStartsWith(rel_path, pattern)

\* should_exclude of apply_update's copy loop.
should_exclude(rel_path) ==
    \E pattern \in excluded_patterns :
        PathMatch(rel_path, pattern) \/ StrStartsWith(rel_path, pattern)

\* update_config["critical_files"] that the model's packages can hold.
critical_files == {SrcFile}

\* ------------------------------------------------------------- trees
EmptyTree == [f \in {} |-> NoFile]

\* A release package laid out under `prefix`: a VERSION marker, a
\* configuration file and (unless a critical file is missing) a source file.
MkTree(prefix, ver, hasSrc) ==
    [f \in {prefix \o VERSION, prefix \o CfgFile}
           \cup (IF hasSrc THEN {prefix \o SrcFile} ELSE {}) |-> ver]

\* Versions carried by the packages of the model.
V200 == V(2, 0, 0, "")
V210 == V(2, 1, 0, "")
V210rc == V(2, 1, 0, "rc")
V210x == V(2, 1, 0, "x")
PkgVersions == {V200, V210, V210rc, V210x}

Wrapper == <<"pkg">>

\* The extracted trees an archive of the model can hold: flat packages (one
\* without the critical file and with the files a release can add), a
\* pre-release wrapped in a top-level folder,
\* packages with a marker at the root and another in the folder, and a
\* package with no marker.
Packages ==
    {MkTree(<<>>, v, TRUE) : v \in {V200, V210, V210x}}
    \cup {MkTree(<<>>, V210, FALSE) @@ [f \in AddedPaths |-> V210],
          MkTree(Wrapper, V210rc, TRUE)}
    \cup {MkTree(<<>>, V210, FALSE) @@ MkTree(Wrapper, V200, TRUE),
          MkTree(<<>>, V200, FALSE) @@ MkTree(Wrapper, V210, TRUE)}
    \cup {[f \in {SrcFile, CfgFile} |-> V210]}

\* Top-level directories of a tree.
TopDirs(tree) == {<<f[1]>> : f \in {g \in DOMAIN tree : Len(g) > 1}}

\* Sub-directories of `dir` that hold a VERSION file somewhere below them.
MarkerDirs(tree, dir) ==
    {SubSeq(f, 1, Len(dir) + 1) :
        f \in {g \in DOMAIN tree : /\ IsPrefix(dir, g)
                                   /\ Len(g) > Len(dir) + 1
                                   /\ g[Len(g)] = "VERSION"}}

\* The files update_dir.rglob("VERSION") can yield first: the walk visits a
\* directory's own entries before it descends, and the sub-directories in
\* the order the file system lists them.
RECURSIVE FirstVersionFiles(_, _)
FirstVersionFiles(tree, dir) ==
    IF dir \o VERSION \in DOMAIN tree THEN {dir \o VERSION}
    ELSE UNION {FirstVersionFiles(tree, d) : d \in MarkerDirs(tree, dir)}

\* Critical files of which no file of that name is found in the tree.
MissingCritical(tree) ==
    {c \in critical_files : \A f \in DOMAIN tree : f[Len(f)] # c[Len(c)]}

\* Mutant: a missing critical file fails the validation.
validate_update_critical(tree, version_file, cur, ioerr) ==
    IF version_file = NoFile THEN FALSE
    ELSE IF ioerr THEN FALSE
    ELSE IF ~compare_versions(cur, Strip(tree[version_file])) < 0 THEN FALSE
    ELSE MissingCritical(tree) = {}

\* UpdateManager.validate_update, for the VERSION file the walk found
\* (NoFile when it found none) and the caller's current_version; `ioerr` is
\* an exception while reading it.
validate_update(tree, version_file, cur, ioerr) ==
    IF version_file = NoFile THEN FALSE
    ELSE IF ioerr THEN FALSE
    ELSE IF ~is_newer_version_available(cur, Strip(tree[version_file])) THEN FALSE
    ELSE TRUE

\* The directories apply_update can take as update_root: the first
\* sub-directory listed that holds a VERSION file, else update_dir itself.
UpdateRoots(tree) ==
    IF \E d \in TopDirs(tree) : d \o VERSION \in DOMAIN tree
    THEN {d \in TopDirs(tree) : d \o VERSION \in DOMAIN tree}
    ELSE {<<>>}

\* The files a walk rglob("*") can yield next when `rest` are the files it
\* has not yielded yet: a directory's own files come before the files of its
\* sub-directories; the order is otherwise the file system's.
WalkNext(rest) ==
    {f \in rest : \A g \in rest :
        ~(Len(g) < Len(f) /\ IsPrefix(SubSeq(g, 1, Len(g) - 1), f))}

\* Relative paths of the files update_root.rglob("*") yields.
FilesUnder(tree, root) ==
    {RelativeTo(f, root) : f \in {g \in DOMAIN tree : IsPrefix(root, g)}}

\* VersionManager.get_current_version
get_current_version(fs) ==
    IF fs[VERSION] = NoFile THEN ZeroVersion ELSE Strip(fs[VERSION])

\* ------------------------------------------------------------- version info
\* The VersionInfo record (version_manager.version_info, and the content of
\* config/version_info.json): None is NoFile for a version and 0 for a time.
NoInfo ==
    [present |-> FALSE, version |-> NoFile, last_update_check |-> 0,
     available_version |-> NoFile]

\* VersionManager.load_version_info
load_version_info(file, cur) ==
    IF file.present THEN file
    ELSE [present |-> TRUE, version |-> cur, last_update_check |-> 0,
          available_version |-> NoFile]

\* Mutant: set_version leaves the record's version field as it was.
set_version_info_stale(info, new_version) == info

\* The record after set_version's update_version_info(version=new_version, ...).
set_version_info(info, new_version) == [info EXCEPT !.version = new_version]

\* ------------------------------------------------------------- backups
BackupNames == 1..MaxTime
Manifest == <<"manifest.json">>

NoManifest == [present |-> FALSE, backup_date |-> 0, version |-> NoFile, files |-> {}]
\* `seq` is the backup's place in the order in which the create_backup calls
\* that wrote the backups returned (0: none has returned yet).
NoBackup == [exists |-> FALSE, files |-> EmptyTree, manifest |-> NoManifest, seq |-> 0]

\* The place of the next create_backup to return.
NextSeq(bks) ==
    1 + CHOOSE m \in {bks[n].seq : n \in DOMAIN bks} :
            \A n \in DOMAIN bks : bks[n].seq <= m

\* Files found under a backup directory by rglob("*").
BackupListing(b) ==
    DOMAIN b.files \cup (IF b.manifest.present THEN {Manifest} ELSE {})

\* ------------------------------------------------------------- archives
UrlExts == {"tar.gz", "zip", "other"}

\* download_update's filename for a URL whose last segment ends in ext.
FileName(ext) == IF ext \in {"tar.gz", "zip"} THEN ext ELSE "tar.gz"

NoArchive == [name |-> "none", fmt |-> "none", tree |-> EmptyTree]

\* What the server can send for a URL: a gzipped tar or a zip archive holding
\* a package, or bytes that are no archive.
Bodies(ext) ==
    [fmt : {"tar.gz"}, tree : IF ext = "tar.gz" THEN Packages ELSE {MkTree(<<>>, V210, TRUE)}]
    \cup [fmt : {"zip"}, tree : {MkTree(<<>>, V210, TRUE)}]
    \cup [fmt : {"bad"}, tree : {EmptyTree}]

NoDir == [exists |-> FALSE, tree |-> EmptyTree]

\* ------------------------------------------------------------- state
VARIABLES
    inst,                  \* files under project_root
    backups,               \* directories under backup_dir, by name
    service,               \* the dagr systemd service
    now,                   \* wall-clock time, in seconds
    backup_before_update,  \* update_config
    restart_after_update,  \* update_config
    current_version,       \* version_manager.current_version of each process
    pc,                    \* where each process is
    op,                    \* the operation each process is running
    temp_dir,              \* perform_update's local temp_dir is set
    tmpExists,             \* the directory mkdtemp made exists
    archive,               \* the downloaded file
    extracted,             \* the `extracted` directory
    update_root,           \* apply_update's update_root
    todo,                  \* files the running loop has still to visit
    backup_name,           \* the backup being created or restored
    result,                \* what the operation returned
    hist,                  \* steps completed by the running operation
    failedAt,              \* the step that failed
    accepted,              \* what validate_update compared when it passed
    verAtCall,             \* content of VERSION when the operation was called
    wrote,                 \* installation files the operation has written
    ncalls,                \* operations called so far
    cmpArgs,               \* SpecCompare: three version strings
    cmpOut,                \* SpecCompare: results of compare_versions
    version_info,          \* version_manager.version_info of each process
    info_file,             \* config/version_info.json
    vmOut,                 \* what the last call of a VersionManager method returned
    lastSet,               \* the set_version call that has just returned
    listing,               \* what the last list_backups call returned
    lastBackup,            \* the create_backup call that has just returned
    nbackups,              \* create_backup calls made so far
    lastUpdate,            \* the perform_update that has made a backup and succeeded
    atCall,                \* installation, service and version when the operation was called
    running,               \* display_manager.running
    rotation_thread,       \* display_manager.rotation_thread
    workers,               \* where each rotation_worker thread is
    dm_pc,                 \* where the thread calling the display manager is
    current_image_index    \* display_manager.current_image_index

fsVars == <<inst, backups, service, now>>
cfgVars == <<backup_before_update, restart_after_update>>
tmpVars == <<temp_dir, tmpExists, archive, extracted>>
cmpVars == <<cmpArgs, cmpOut>>
vmVars == <<version_info, info_file, vmOut, lastSet>>
bkVars == <<listing, lastBackup, nbackups, lastUpdate>>
dmVars == <<running, rotation_thread, workers, dm_pc, current_image_index>>
vars == <<inst, backups, service, now, backup_before_update, restart_after_update,
          current_version, pc, op, temp_dir, tmpExists, archive, extracted,
          update_root, todo, backup_name, result, hist, failedAt, accepted,
          verAtCall, wrote, ncalls, cmpArgs, cmpOut, version_info, info_file,
          vmOut, lastSet, listing, lastBackup, nbackups, lastUpdate, atCall, running,
          rotation_thread, workers, dm_pc, current_image_index>>

NoResult == [state |-> "none", error |-> "", new_version |-> NoFile]
NotAccepted == [marker |-> NoFile, cur |-> NoFile]
NoOut ==
    [call |-> "none", arg |-> NoFile, kind |-> "none", value |-> NoFile,
     error |-> "", current_version |-> NoFile, update_available |-> FALSE]
NoSet == [by |-> "none", version |-> NoFile]
NoListing == [called |-> FALSE, entries |-> <<>>, seen |-> <<>>, seq |-> <<>>]
NoLastBackup == [name |-> 0, inst |-> EmptyTree]
NoLastUpdate == [name |-> 0, before |-> [inst |-> EmptyTree, service |-> "none", current_version |-> NoFile]]
NoCall == [inst |-> EmptyTree, service |-> "none", current_version |-> NoFile]

\* The files no release has installed yet.
NotInstalled == [f \in AddedPaths |-> NoFile]

\* The installation before any update: every file belongs to release 2.0.0;
\* config/settings.json may not exist yet.
InitInst ==
    {[f \in InstPaths |-> IF f = CfgFile THEN c ELSE V200] @@ NotInstalled :
         c \in {V200, NoFile}}

\* DisplayManager.__init__: no rotation runs.
InitDisplay ==
    /\ running = FALSE
    /\ rotation_thread = 0
    /\ workers = [w \in WorkerIds |-> "unborn"]
    /\ dm_pc = "idle"
    /\ current_image_index = 0

InitCalls ==
    /\ pc = [p \in Procs |-> "idle"]
    /\ op = [p \in Procs |-> "none"]
    /\ temp_dir = [p \in Procs |-> FALSE]
    /\ tmpExists = [p \in Procs |-> FALSE]
    /\ archive = [p \in Procs |-> NoArchive]
    /\ extracted = [p \in Procs |-> NoDir]
    /\ update_root = [p \in Procs |-> <<>>]
    /\ todo = [p \in Procs |-> {}]
    /\ backup_name = [p \in Procs |-> 0]
    /\ result = [p \in Procs |-> NoResult]
    /\ hist = [p \in Procs |-> <<>>]
    /\ failedAt = [p \in Procs |-> "none"]
    /\ accepted = [p \in Procs |-> NotAccepted]
    /\ verAtCall = [p \in Procs |-> NoFile]
    /\ wrote = [p \in Procs |-> {}]
    /\ ncalls = 0
    /\ vmOut = [p \in Procs |-> NoOut]
    /\ lastSet = NoSet
    /\ listing = NoListing
    /\ lastBackup = NoLastBackup
    /\ nbackups = 0
    /\ lastUpdate = NoLastUpdate
    /\ atCall = [p \in Procs |-> NoCall]
    /\ InitDisplay

\* UpdateManager.__init__ and VersionManager.__init__ in every process.
Init ==
    /\ inst \in InitInst
    /\ backups = [n \in BackupNames |-> NoBackup]
    /\ service = "running"
    /\ now = 1
    /\ backup_before_update \in BOOLEAN
    /\ restart_after_update \in BOOLEAN
    /\ current_version = [p \in Procs |-> get_current_version(inst)]
    /\ info_file = NoInfo
    /\ version_info = [p \in Procs |-> load_version_info(info_file, current_version[p])]
    /\ InitCalls
    /\ cmpArgs = <<ZeroVersion, ZeroVersion, ZeroVersion>>
    /\ cmpOut = <<>>

\* ------------------------------------------------------------- helpers
\* The record of a perform_update of p that returns success: the backup it
\* made, if it made one, and what it found when it was called.
updated(p) ==
    IF backup_before_update
    THEN [name |-> backup_name[p], before |-> atCall[p]]
    ELSE NoLastUpdate

\* What a caller finds when it invokes an operation.
AtCall(p) ==
    [inst |-> inst, service |-> service, current_version |-> current_version[p]]

\* The state of the service after `systemctl <verb> dagr`, run with
\* check=False: `target` when the command worked, unchanged when it failed or
\* could not be run.
systemctl(target, svc, ok) == IF ok THEN target ELSE svc

\* Mutant: a systemctl failure raises out of stop_services / start_services.
service_call_raises_on_failure(ok) == ~ok

\* Whether stop_services / start_services raise: subprocess.run is called
\* with check=False inside a try whose except clause only logs.
service_call_raises(ok) == FALSE

Done(p, r) == /\ result' = [result EXCEPT ![p] = r]
              /\ pc' = [pc EXCEPT ![p] = "finally"]

Failure(err) == [state |-> "fail", error |-> err, new_version |-> NoFile]
Success(ver) == [state |-> "ok", error |-> "", new_version |-> ver]

Log(p, step) == hist' = [hist EXCEPT ![p] = Append(@, step)]

\* ------------------------------------------------------------- perform_update
\* A caller invokes perform_update(download_url).
PerformUpdate(p) ==
    /\ pc[p] = "idle"
    /\ ncalls < MaxCalls
    /\ MayCall(p, ncalls)
    /\ ncalls' = ncalls + 1
    /\ op' = [op EXCEPT ![p] = "update"]
    /\ pc' = [pc EXCEPT ![p] = "download"]
    /\ verAtCall' = [verAtCall EXCEPT ![p] = inst[VERSION]]
    /\ atCall' = [atCall EXCEPT ![p] = AtCall(p)]
    /\ lastBackup' = NoLastBackup
    /\ lastUpdate' = NoLastUpdate
    /\ UNCHANGED <<fsVars, cfgVars, tmpVars, cmpVars, dmVars, vmVars, listing, nbackups, current_version, update_root,
                   todo, backup_name, result, hist, failedAt, accepted, wrote>>

\* download_update: tempfile.mkdtemp
DownloadMkdtemp(p) ==
    /\ pc[p] = "download"
    /\ tmpExists' = [tmpExists EXCEPT ![p] = TRUE]
    /\ pc' = [pc EXCEPT ![p] = "dl_get"]
    /\ UNCHANGED <<fsVars, cfgVars, cmpVars, dmVars, atCall, vmVars, bkVars, current_version, op, temp_dir,
                   archive, extracted, update_root, todo, backup_name, result, hist,
                   failedAt, accepted, verAtCall, wrote, ncalls>>

\* download_update: the request for download_url (a URL whose last segment
\* ends in ext) and the streaming of the body succeed.
DownloadOk(p) ==
    /\ pc[p] = "dl_get"
    /\ \E ext \in UrlExts : \E b \in Bodies(ext) :
          archive' = [archive EXCEPT ![p] =
                         [name |-> FileName(ext), fmt |-> b.fmt, tree |-> b.tree]]
    /\ temp_dir' = [temp_dir EXCEPT ![p] = TRUE]
    /\ Log(p, "download")
    /\ pc' = [pc EXCEPT ![p] = "extract"]
    /\ UNCHANGED <<fsVars, cfgVars, cmpVars, dmVars, atCall, vmVars, bkVars, current_version, op, tmpExists,
                   extracted, update_root, todo, backup_name, result, failedAt,
                   accepted, verAtCall, wrote, ncalls>>

\* Mutant: the except clause does not remove the scratch directory.
download_no_cleanup(exists) == exists

\* The scratch directory after download_update's except clause.
download_cleanup(exists) == FALSE

\* download_update: a network or write error; the except clause removes the
\* scratch directory and re-raises into perform_update's except clause.
DownloadFail(p) ==
    /\ pc[p] = "dl_get"
    /\ tmpExists' = [tmpExists EXCEPT ![p] = download_cleanup(@)]
    /\ failedAt' = [failedAt EXCEPT ![p] = "download"]
    /\ Done(p, Failure("NetworkError"))
    /\ UNCHANGED <<fsVars, cfgVars, cmpVars, dmVars, atCall, vmVars, bkVars, current_version, op, temp_dir,
                   archive, extracted, update_root, todo, backup_name, hist,
                   accepted, verAtCall, wrote, ncalls>>

\* extract_update's choice of an extractor by the archive's name, and whether
\* that extractor can read the file.
CanExtract(a) ==
    IF a.name = "zip" THEN a.fmt = "zip"
    ELSE IF a.name = "tar.gz" THEN a.fmt = "tar.gz"
    ELSE FALSE

\* extract_update: the whole archive is extracted.
ExtractOk(p) ==
    /\ pc[p] = "extract"
    /\ CanExtract(archive[p])
    /\ extracted' = [extracted EXCEPT ![p] = [exists |-> TRUE, tree |-> archive[p].tree]]
    /\ Log(p, "extract")
    /\ pc' = [pc EXCEPT ![p] = "validate"]
    /\ UNCHANGED <<fsVars, cfgVars, cmpVars, dmVars, atCall, vmVars, bkVars, current_version, op, temp_dir,
                   tmpExists, archive, update_root, todo, backup_name, result,
                   failedAt, accepted, verAtCall, wrote, ncalls>>

\* extract_update: the archive cannot be read, or extraction stops part-way;
\* the files extracted so far stay in the `extracted` directory.
ExtractFail(p) ==
    /\ pc[p] = "extract"
    /\ \E part \in SUBSET DOMAIN archive[p].tree :
          /\ ~CanExtract(archive[p]) => part = {}
          /\ part # DOMAIN archive[p].tree \/ part = {}
          /\ Cardinality(part) <= 1
          /\ extracted' = [extracted EXCEPT ![p] =
                 [exists |-> TRUE, tree |-> [f \in part |-> archive[p].tree[f]]]]
    /\ failedAt' = [failedAt EXCEPT ![p] = "extract"]
    /\ Done(p, Failure("ExtractError"))
    /\ UNCHANGED <<fsVars, cfgVars, cmpVars, dmVars, atCall, vmVars, bkVars, current_version, op, temp_dir,
                   tmpExists, archive, update_root, todo, backup_name, hist,
                   accepted, verAtCall, wrote, ncalls>>

\* Mutant: the service is stopped before the backup is taken.
apply_next_stop_first(at, backup) ==
    CASE at = "entry" -> "stop"
      [] at = "stop" -> IF backup THEN "bk_mkdir" ELSE "copy"
      [] at = "backup" -> "copy"

\* The order of apply_update's steps: where it starts ("entry"), and where it
\* goes after create_backup and after stop_services.
apply_next(at, backup) ==
    CASE at = "entry" -> IF backup THEN "bk_mkdir" ELSE "stop"
      [] at = "backup" -> "stop"
      [] at = "stop" -> "copy"

\* Mutant: perform_update ignores apply_update's result and goes on.
after_apply_failure_continue == "start"

\* perform_update after apply_update has returned False: it returns its
\* failure result through the finally clause.
after_apply_failure == "finally"

ApplyFailed(p) ==
    /\ result' = [result EXCEPT ![p] = Failure("Failed to apply update")]
    /\ pc' = [pc EXCEPT ![p] = after_apply_failure]

\* validate_update and perform_update's test of its result.
Validate(p) ==
    /\ pc[p] = "validate"
    /\ LET tree == extracted[p].tree
           found == FirstVersionFiles(tree, <<>>)
       IN \E vf \in (IF found = {} THEN {NoFile} ELSE found), ioerr \in BOOLEAN :
            IF validate_update(tree, vf, current_version[p], ioerr)
            THEN /\ accepted' = [accepted EXCEPT ![p] =
                        [marker |-> tree[vf], cur |-> current_version[p]]]
                 /\ Log(p, "validate")
                 /\ pc' = [pc EXCEPT ![p] = apply_next("entry", backup_before_update)]
                 /\ UNCHANGED <<result, failedAt>>
            ELSE /\ failedAt' = [failedAt EXCEPT ![p] =
                        IF vf # NoFile /\ ioerr THEN "validate_io" ELSE "validate"]
                 /\ Done(p, Failure("Update validation failed"))
                 /\ UNCHANGED <<accepted, hist>>
    /\ UNCHANGED <<fsVars, cfgVars, tmpVars, cmpVars, dmVars, atCall, vmVars, bkVars, current_version, op, update_root, todo, backup_name, verAtCall, wrote, ncalls>>

\* ------------------------------------------------------------- create_backup
\* A caller invokes create_backup directly, with a name or without one (0).
CreateBackup(p) ==
    /\ pc[p] = "idle"
    /\ nbackups < MaxBackupCalls
    /\ nbackups' = nbackups + 1
    /\ op' = [op EXCEPT ![p] = "backup"]
    /\ pc' = [pc EXCEPT ![p] = "bk_mkdir"]
    /\ \E n \in BackupNames \cup {0} : backup_name' = [backup_name EXCEPT ![p] = n]
    /\ verAtCall' = [verAtCall EXCEPT ![p] = inst[VERSION]]
    /\ atCall' = [atCall EXCEPT ![p] = AtCall(p)]
    /\ lastBackup' = NoLastBackup
    /\ lastUpdate' = NoLastUpdate
    /\ UNCHANGED <<fsVars, cfgVars, tmpVars, cmpVars, dmVars, vmVars, listing, 
                   current_version, update_root, todo, result, hist, failedAt,
                   accepted, wrote, ncalls>>

\* The names create_backup can use: the one it was given, else the default
\* name, datetime.now() to the second (time may have moved on since it was
\* last read).
backup_names(given, time) ==
    IF given # 0 THEN {given} ELSE {time, time + 1} \cap BackupNames

\* backup_path.mkdir(exist_ok=True)
BkMkdir(p) ==
    /\ pc[p] = "bk_mkdir"
    /\ \E t \in backup_names(backup_name[p], now) :
          /\ now' = IF backup_name[p] # 0 THEN now ELSE t
          /\ backup_name' = [backup_name EXCEPT ![p] = t]
          /\ backups' = [backups EXCEPT ![t].exists = TRUE]
    /\ pc' = [pc EXCEPT ![p] = "bk_src"]
    /\ UNCHANGED <<inst, service, cfgVars, tmpVars, cmpVars, dmVars, atCall, vmVars, bkVars, current_version, op, update_root, todo, result, hist, failedAt, accepted, verAtCall,
                   wrote, ncalls>>

\* Files of the installation below the top-level directory `dir`.
TreeOf(fs, dir) == {f \in DOMAIN fs : f[1] = dir /\ Len(f) > 1 /\ fs[f] # NoFile}

\* Mutant: copytree leaves the files the backup already holds as they are.
copytree_keep_existing(new, old) == old @@ new

\* The files of a directory after copytree(..., dirs_exist_ok=True) has
\* copied `new` into it: files already there are overwritten.
copytree_merge(new, old) == new @@ old

\* shutil.copytree(src_dir, backup_path / "src", dirs_exist_ok=True)
BkCopySrc(p) ==
    /\ pc[p] = "bk_src"
    /\ LET n == backup_name[p]
           copied == TreeOf(inst, "src")
       IN backups' = [backups EXCEPT ![n] =
              [@ EXCEPT !.exists = (@ \/ copied # {}),
                        !.files = copytree_merge([f \in copied |-> inst[f]], @)]]
    /\ pc' = [pc EXCEPT ![p] = "bk_ver"]
    /\ UNCHANGED <<inst, service, now, cfgVars, tmpVars, cmpVars, dmVars, atCall, vmVars, bkVars, current_version, op,
                   update_root, todo, backup_name, result, hist, failedAt,
                   accepted, verAtCall, wrote, ncalls>>

\* shutil.copy2(project_root / "VERSION", backup_path / "VERSION")
BkCopyVersion(p) ==
    /\ pc[p] = "bk_ver"
    /\ LET n == backup_name[p]
       IN IF inst[VERSION] = NoFile THEN UNCHANGED backups
          ELSE /\ backups[n].exists
               /\ backups' = [backups EXCEPT ![n].files =
                                 [f \in {VERSION} |-> inst[VERSION]] @@ @]
    /\ pc' = [pc EXCEPT ![p] = "bk_manifest"]
    /\ UNCHANGED <<inst, service, now, cfgVars, tmpVars, cmpVars, dmVars, atCall, vmVars, bkVars, current_version, op,
                   update_root, todo, backup_name, result, hist, failedAt,
                   accepted, verAtCall, wrote, ncalls>>

\* The manifest is written; create_backup returns to apply_update, or to
\* the caller who invoked it directly.
BkManifest(p) ==
    /\ pc[p] = "bk_manifest"
    /\ LET n == backup_name[p]
       IN /\ backups[n].exists
          /\ backups' = [backups EXCEPT ![n] =
                 [@ EXCEPT !.manifest =
                               [present |-> TRUE, backup_date |-> n,
                                version |-> current_version[p],
                                files |-> BackupListing(backups[n])],
                           !.seq = NextSeq(backups)]]
          /\ lastBackup' = IF op[p] = "backup" THEN [name |-> n, inst |-> inst]
                           ELSE lastBackup
    /\ Log(p, "backup")
    /\ IF op[p] = "backup"
       THEN /\ pc' = [pc EXCEPT ![p] = "done"]
            /\ result' = [result EXCEPT ![p] = Success(current_version[p])]
       ELSE /\ pc' = [pc EXCEPT ![p] = apply_next("backup", backup_before_update)]
            /\ UNCHANGED result
    /\ UNCHANGED <<inst, service, now, cfgVars, tmpVars, cmpVars, dmVars, lastUpdate, atCall, vmVars, listing,
                   nbackups, current_version, op, update_root, todo,
                   backup_name, failedAt, accepted, verAtCall, wrote, ncalls>>

\* Mutant: the except clause leaves the partial backup where it is.
backup_no_cleanup(b) == b

\* The backup directory after create_backup's except clause (rmtree).
backup_cleanup(b) == NoBackup

\* A copy or the manifest write fails: create_backup removes backup_path and
\* re-raises; apply_update catches it and returns False, a direct caller
\* gets the exception.
BackupFail(p) ==
    /\ pc[p] \in {"bk_src", "bk_ver", "bk_manifest"}
    /\ backups' = [backups EXCEPT ![backup_name[p]] = backup_cleanup(@)]
    /\ failedAt' = [failedAt EXCEPT ![p] = "backup"]
    /\ IF op[p] = "backup"
       THEN /\ result' = [result EXCEPT ![p] = Failure("BackupError")]
            /\ pc' = [pc EXCEPT ![p] = "done"]
       ELSE ApplyFailed(p)
    /\ UNCHANGED <<inst, service, now, cfgVars, tmpVars, cmpVars, dmVars, atCall, vmVars, bkVars, current_version, op,
                   update_root, todo, backup_name, hist, accepted, verAtCall,
                   wrote, ncalls>>

\* ------------------------------------------------------------- apply_update
\* stop_services ("systemctl stop dagr"; a failure is only logged), then the
\* choice of update_root and the start of the walk over its files.
Stop(p) ==
    /\ pc[p] = "stop"
    /\ \E ok \in BOOLEAN :
          /\ service' = systemctl("stopped", service, ok)
          /\ IF service_call_raises(ok)
             THEN /\ failedAt' = [failedAt EXCEPT ![p] = "stop"]
                  /\ ApplyFailed(p)
                  /\ UNCHANGED <<update_root, todo, hist>>
             ELSE /\ \E root \in UpdateRoots(extracted[p].tree) :
                        /\ update_root' = [update_root EXCEPT ![p] = root]
                        /\ todo' = [todo EXCEPT ![p] =
                                        FilesUnder(extracted[p].tree, root)]
                  /\ Log(p, "stop")
                  /\ pc' = [pc EXCEPT ![p] = apply_next("stop", backup_before_update)]
                  /\ UNCHANGED <<result, failedAt>>
    /\ UNCHANGED <<inst, backups, now, cfgVars, tmpVars, cmpVars, dmVars, atCall, vmVars, bkVars,
                   current_version, op, backup_name, accepted, verAtCall, wrote,
                   ncalls>>

\* One round of the copy loop: an excluded file is skipped, any other file is
\* copied over the installation.
CopyFile(p) ==
    /\ pc[p] = "copy"
    /\ \E f \in WalkNext(todo[p]) :
          /\ todo' = [todo EXCEPT ![p] = @ \ {f}]
          /\ IF should_exclude(f)
             THEN UNCHANGED <<inst, hist, wrote>>
             ELSE /\ inst' = [inst EXCEPT ![f] = extracted[p].tree[update_root[p] \o f]]
                  /\ wrote' = [wrote EXCEPT ![p] = @ \cup {f}]
                  /\ Log(p, "copy")
    /\ UNCHANGED <<backups, service, now, cfgVars, tmpVars, cmpVars, dmVars, atCall, vmVars, bkVars, current_version,
                   pc, op, update_root, backup_name, result, failedAt, accepted,
                   verAtCall, ncalls>>

\* A copy raises: apply_update returns False.
CopyFail(p) ==
    /\ pc[p] = "copy"
    /\ \E f \in WalkNext(todo[p]) : ~should_exclude(f)
    /\ failedAt' = [failedAt EXCEPT ![p] = "copy"]
    /\ ApplyFailed(p)
    /\ UNCHANGED <<fsVars, cfgVars, tmpVars, cmpVars, dmVars, atCall, vmVars, bkVars, current_version, op, update_root, todo, backup_name, hist, accepted, verAtCall, wrote,
                   ncalls>>

\* Mutant: perform_update starts the service whatever the configuration says.
after_apply_always_start == "start"

\* Where perform_update goes when apply_update has returned True.
AfterApply == IF restart_after_update THEN "start" ELSE "finally"

\* After the loop: version_manager.set_version with update_root's VERSION, if
\* there is one, then the permission fix-up (its failures are only logged);
\* apply_update returns True.
SetVersion(p) ==
    /\ pc[p] = "copy"
    /\ todo[p] = {}
    /\ LET vf == update_root[p] \o VERSION
           tree == extracted[p].tree
       IN IF vf \in DOMAIN tree
          THEN /\ inst' = [inst EXCEPT ![VERSION] = Strip(tree[vf])]
               /\ current_version' = [current_version EXCEPT ![p] = Strip(tree[vf])]
               /\ version_info' = [version_info EXCEPT ![p] =
                                       set_version_info(@, Strip(tree[vf]))]
               /\ info_file' = version_info'[p]
               /\ wrote' = [wrote EXCEPT ![p] = @ \cup {VERSION}]
               /\ Log(p, "set_version")
          ELSE UNCHANGED <<inst, current_version, version_info, info_file, wrote, hist>>
    /\ pc' = [pc EXCEPT ![p] = AfterApply]
    /\ result' = [result EXCEPT ![p] =
                     IF restart_after_update THEN @ ELSE Success(current_version'[p])]
    /\ lastUpdate' = IF restart_after_update THEN lastUpdate ELSE updated(p)
    /\ UNCHANGED <<backups, service, now, cfgVars, tmpVars, cmpVars, dmVars, atCall, vmOut, lastSet, listing, lastBackup, nbackups, op, update_root, todo, backup_name, failedAt, accepted, verAtCall,
                   ncalls>>

\* set_version cannot write the VERSION file: it re-raises and apply_update
\* returns False.
SetVersionFail(p) ==
    /\ pc[p] = "copy"
    /\ todo[p] = {}
    /\ update_root[p] \o VERSION \in DOMAIN extracted[p].tree
    /\ failedAt' = [failedAt EXCEPT ![p] = "set_version"]
    /\ ApplyFailed(p)
    /\ UNCHANGED <<fsVars, cfgVars, tmpVars, cmpVars, dmVars, atCall, vmVars, bkVars, current_version, op, update_root, todo, backup_name, hist, accepted, verAtCall, wrote,
                   ncalls>>

\* start_services ("systemctl start dagr"; a failure is only logged);
\* perform_update builds its success result.
Start(p) ==
    /\ pc[p] = "start"
    /\ \E ok \in BOOLEAN :
          /\ service' = systemctl("running", service, ok)
          /\ IF service_call_raises(ok)
             THEN /\ failedAt' = [failedAt EXCEPT ![p] = "start"]
                  /\ Done(p, Failure("ServiceError"))
                  /\ UNCHANGED <<hist, lastUpdate>>
             ELSE /\ Log(p, "start")
                  /\ Done(p, Success(current_version[p]))
                  /\ lastUpdate' = updated(p)
                  /\ UNCHANGED failedAt
    /\ UNCHANGED <<inst, backups, now, cfgVars, tmpVars, cmpVars, dmVars, atCall, vmVars, listing, lastBackup, nbackups,
                   current_version, op, update_root, todo, backup_name, accepted,
                   verAtCall, wrote, ncalls>>

\* The scratch directory after perform_update's finally clause.
finally_cleanup(set, exists) == IF set /\ exists THEN FALSE ELSE exists

\* perform_update's finally clause, then the return to the caller.
Finally(p) ==
    /\ pc[p] = "finally"
    /\ tmpExists' = [tmpExists EXCEPT ![p] = finally_cleanup(temp_dir[p], @)]
    /\ archive' = [archive EXCEPT ![p] = IF tmpExists'[p] THEN @ ELSE NoArchive]
    /\ extracted' = [extracted EXCEPT ![p] = IF tmpExists'[p] THEN @ ELSE NoDir]
    /\ pc' = [pc EXCEPT ![p] = "done"]
    /\ UNCHANGED <<fsVars, cfgVars, cmpVars, dmVars, atCall, vmVars, bkVars, current_version, op, temp_dir,
                   update_root, todo, backup_name, result, hist, failedAt, accepted,
                   verAtCall, wrote, ncalls>>

\* ------------------------------------------------------------- rollback_to_backup
\* Mutant: rollback_to_backup does not stop the service.
rollback_entry_no_stop == "rb_manifest"

\* The first step of rollback_to_backup once the backup is found.
rollback_entry == "rb_stop"

\* Mutant: rollback_to_backup does not look for the backup directory.
backup_path_exists_unchecked(b) == TRUE

\* backup_path.exists()
backup_path_exists(b) == b.exists

\* A caller invokes rollback_to_backup(backup_name); a name with no backup
\* directory returns False at once.
Rollback(p) ==
    /\ pc[p] = "idle"
    /\ ncalls < MaxCalls
    /\ MayCall(p, ncalls)
    /\ ncalls' = ncalls + 1
    /\ op' = [op EXCEPT ![p] = "rollback"]
    /\ verAtCall' = [verAtCall EXCEPT ![p] = inst[VERSION]]
    /\ atCall' = [atCall EXCEPT ![p] = AtCall(p)]
    /\ \E n \in BackupNames :
          /\ backup_name' = [backup_name EXCEPT ![p] = n]
          /\ lastBackup' = IF n = lastBackup.name THEN lastBackup ELSE NoLastBackup
          /\ lastUpdate' = IF n = lastUpdate.name THEN lastUpdate ELSE NoLastUpdate
          /\ IF backup_path_exists(backups[n])
             THEN /\ pc' = [pc EXCEPT ![p] = rollback_entry]
                  /\ UNCHANGED <<result, failedAt>>
             ELSE /\ pc' = [pc EXCEPT ![p] = "done"]
                  /\ failedAt' = [failedAt EXCEPT ![p] = "exists"]
                  /\ result' = [result EXCEPT ![p] = Failure("Backup not found")]
    /\ UNCHANGED <<fsVars, cfgVars, tmpVars, cmpVars, dmVars, vmVars, listing, nbackups, current_version, update_root, todo, hist, accepted, wrote>>

\* stop_services
RbStop(p) ==
    /\ pc[p] = "rb_stop"
    /\ \E ok \in BOOLEAN :
          /\ service' = systemctl("stopped", service, ok)
          /\ IF service_call_raises(ok)
             THEN /\ failedAt' = [failedAt EXCEPT ![p] = "stop"]
                  /\ result' = [result EXCEPT ![p] = Failure("Rollback failed")]
                  /\ pc' = [pc EXCEPT ![p] = "done"]
                  /\ UNCHANGED hist
             ELSE /\ Log(p, "stop")
                  /\ pc' = [pc EXCEPT ![p] = "rb_manifest"]
                  /\ UNCHANGED <<result, failedAt>>
    /\ UNCHANGED <<inst, backups, now, cfgVars, tmpVars, cmpVars, dmVars, atCall, vmVars, bkVars,
                   current_version, op, update_root, todo, backup_name, accepted,
                   verAtCall, wrote, ncalls>>

\* The manifest, if there is one, is loaded (it is only logged), and the
\* walk over the backup's files starts.
RbManifest(p) ==
    /\ pc[p] = "rb_manifest"
    /\ todo' = [todo EXCEPT ![p] = BackupListing(backups[backup_name[p]])]
    /\ pc' = [pc EXCEPT ![p] = "rb_restore"]
    /\ UNCHANGED <<fsVars, cfgVars, tmpVars, cmpVars, dmVars, atCall, vmVars, bkVars, current_version, op, update_root, backup_name, result, hist, failedAt, accepted,
                   verAtCall, wrote, ncalls>>

\* One round of the restore loop: every file but manifest.json is copied
\* back over the installation.
RbRestoreFile(p) ==
    /\ pc[p] = "rb_restore"
    /\ \E f \in WalkNext(todo[p]) :
          /\ todo' = [todo EXCEPT ![p] = @ \ {f}]
          /\ IF f[Len(f)] = "manifest.json"
             THEN UNCHANGED <<inst, hist, wrote>>
             ELSE /\ f \in DOMAIN backups[backup_name[p]].files
                  /\ inst' = [inst EXCEPT ![f] = backups[backup_name[p]].files[f]]
                  /\ wrote' = [wrote EXCEPT ![p] = @ \cup {f}]
                  /\ Log(p, "restore")
    /\ UNCHANGED <<backups, service, now, cfgVars, tmpVars, cmpVars, dmVars, atCall, vmVars, bkVars, current_version,
                   pc, op, update_root, backup_name, result, failedAt, accepted,
                   verAtCall, ncalls>>

\* The manifest cannot be parsed, or a copy raises: rollback_to_backup's
\* except clause returns False.
RbFail(p) ==
    /\ \/ pc[p] = "rb_manifest" /\ backups[backup_name[p]].manifest.present
       \/ pc[p] = "rb_restore" /\ \E f \in WalkNext(todo[p]) : f[Len(f)] # "manifest.json"
    /\ failedAt' = [failedAt EXCEPT ![p] = IF pc[p] = "rb_manifest" THEN "manifest" ELSE "restore"]
    /\ result' = [result EXCEPT ![p] = Failure("Rollback failed")]
    /\ pc' = [pc EXCEPT ![p] = "done"]
    /\ UNCHANGED <<fsVars, cfgVars, tmpVars, cmpVars, dmVars, atCall, vmVars, bkVars, current_version, op, update_root, todo, backup_name, hist, accepted, verAtCall, wrote,
                   ncalls>>

\* version_manager.current_version = version_manager.get_current_version()
RbRefresh(p) ==
    /\ pc[p] = "rb_restore"
    /\ todo[p] = {}
    /\ current_version' = [current_version EXCEPT ![p] = get_current_version(inst)]
    /\ Log(p, "refresh")
    /\ pc' = [pc EXCEPT ![p] = "rb_start"]
    /\ UNCHANGED <<fsVars, cfgVars, tmpVars, cmpVars, dmVars, atCall, vmVars, bkVars, op, update_root, todo,
                   backup_name, result, failedAt, accepted, verAtCall, wrote, ncalls>>

\* start_services; rollback_to_backup returns True.
RbStart(p) ==
    /\ pc[p] = "rb_start"
    /\ \E ok \in BOOLEAN :
          /\ service' = systemctl("running", service, ok)
          /\ IF service_call_raises(ok)
             THEN /\ failedAt' = [failedAt EXCEPT ![p] = "start"]
                  /\ result' = [result EXCEPT ![p] = Failure("Rollback failed")]
                  /\ UNCHANGED hist
             ELSE /\ Log(p, "start")
                  /\ result' = [result EXCEPT ![p] = Success(current_version[p])]
                  /\ UNCHANGED failedAt
    /\ pc' = [pc EXCEPT ![p] = "done"]
    /\ UNCHANGED <<inst, backups, now, cfgVars, tmpVars, cmpVars, dmVars, atCall, vmVars, bkVars,
                   current_version, op, update_root, todo, backup_name, accepted,
                   verAtCall, wrote, ncalls>>

\* ------------------------------------------------------------- list_backups
\* The entry list_backups builds from a backup's manifest.
BackupEntry(bks, n) ==
    [name |-> n, date |-> bks[n].manifest.backup_date,
     version |-> bks[n].manifest.version,
     file_count |-> Cardinality(bks[n].manifest.files)]

\* sorted(backups, key=lambda x: x["date"], reverse=True); the dates of the
\* entries of one directory are distinct, as their names are.
RECURSIVE sorted_by_date(_)
sorted_by_date(entries) ==
    IF entries = {} THEN <<>>
    ELSE LET first == CHOOSE e \in entries : \A f \in entries : f.date <= e.date
         IN <<first>> \o sorted_by_date(entries \ {first})

\* UpdateManager.list_backups, when reading the manifests of `unreadable`
\* raises.
list_backups(bks, unreadable) ==
    sorted_by_date({BackupEntry(bks, n) :
        n \in {m \in DOMAIN bks : /\ bks[m].exists
                                  /\ bks[m].manifest.present
                                  /\ m \notin unreadable}})

\* A caller invokes list_backups.
ListBackups(p) ==
    /\ pc[p] = "idle"
    /\ op' = [op EXCEPT ![p] = "list"]
    /\ pc' = [pc EXCEPT ![p] = "done"]
    /\ LET dirs == {n \in BackupNames : backups[n].exists}
           withManifest == {n \in dirs : backups[n].manifest.present}
       IN \E unreadable \in SUBSET withManifest :
             listing' = [called |-> TRUE,
                         entries |-> list_backups(backups, unreadable),
                         seen |-> [n \in dirs |->
                                     IF n \notin withManifest THEN "no manifest"
                                     ELSE IF n \in unreadable THEN "unreadable"
                                     ELSE "read"],
                         seq |-> [n \in dirs |-> backups[n].seq]]
    /\ UNCHANGED <<fsVars, cfgVars, tmpVars, cmpVars, dmVars, lastUpdate, atCall, vmVars, lastBackup, nbackups,
                   current_version, update_root, todo,
                   backup_name, result, hist, failedAt, accepted, verAtCall, wrote,
                   ncalls>>

\* The caller has the result; the process is ready for another call.
Return(p) ==
    /\ pc[p] = "done"
    /\ pc' = [pc EXCEPT ![p] = "idle"]
    /\ op' = [op EXCEPT ![p] = "none"]
    /\ temp_dir' = [temp_dir EXCEPT ![p] = FALSE]
    /\ update_root' = [update_root EXCEPT ![p] = <<>>]
    /\ todo' = [todo EXCEPT ![p] = {}]
    /\ backup_name' = [backup_name EXCEPT ![p] = 0]
    /\ result' = [result EXCEPT ![p] = NoResult]
    /\ hist' = [hist EXCEPT ![p] = <<>>]
    /\ failedAt' = [failedAt EXCEPT ![p] = "none"]
    /\ accepted' = [accepted EXCEPT ![p] = NotAccepted]
    /\ verAtCall' = [verAtCall EXCEPT ![p] = NoFile]
    /\ atCall' = [atCall EXCEPT ![p] = NoCall]
    /\ wrote' = [wrote EXCEPT ![p] = {}]
    /\ listing' = IF op[p] = "list" THEN NoListing ELSE listing
    /\ UNCHANGED <<fsVars, cfgVars, cmpVars, dmVars, lastUpdate, vmVars, lastBackup, nbackups,
                   current_version, tmpExists, archive, extracted, ncalls>>

Next ==
    \E p \in Procs :
        \/ PerformUpdate(p) \/ DownloadMkdtemp(p) \/ DownloadOk(p) \/ DownloadFail(p)
        \/ ExtractOk(p) \/ ExtractFail(p) \/ Validate(p)
        \/ BkMkdir(p) \/ BkCopySrc(p) \/ BkCopyVersion(p) \/ BkManifest(p)
        \/ BackupFail(p)
        \/ Stop(p) \/ CopyFile(p) \/ CopyFail(p) \/ SetVersion(p) \/ SetVersionFail(p)
        \/ Start(p) \/ Finally(p)
        \/ Rollback(p) \/ RbStop(p) \/ RbManifest(p) \/ RbRestoreFile(p) \/ RbFail(p)
        \/ RbRefresh(p) \/ RbStart(p)
        \/ Return(p)

Spec == Init /\ [][Next]_vars

\* ------------------------------------------------------------- backups on demand
\* One process that makes backups, updates and rolls back, one call after
\* the other, while another process lists the backups.
Operator == "p1"
Lister == "p2"

\* The installation of release 2.0.0 with the default update configuration.
InitBackup ==
    /\ inst = [f \in InstPaths |-> V200] @@ NotInstalled
    /\ backups = [n \in BackupNames |-> NoBackup]
    /\ service = "running"
    /\ now = 1
    /\ backup_before_update = TRUE
    /\ restart_after_update = TRUE
    /\ current_version = [p \in Procs |-> get_current_version(inst)]
    /\ info_file = NoInfo
    /\ version_info = [p \in Procs |-> load_version_info(info_file, current_version[p])]
    /\ InitCalls
    /\ cmpArgs = <<ZeroVersion, ZeroVersion, ZeroVersion>>
    /\ cmpOut = <<>>

NextBackup ==
    \/ \E p \in {Operator} :
        \/ CreateBackup(p)
        \/ BkMkdir(p) \/ BkCopySrc(p) \/ BkCopyVersion(p) \/ BkManifest(p)
        \/ BackupFail(p)
        \/ PerformUpdate(p) \/ DownloadMkdtemp(p) \/ DownloadOk(p) \/ DownloadFail(p)
        \/ ExtractOk(p) \/ ExtractFail(p) \/ Validate(p)
        \/ Stop(p) \/ CopyFile(p) \/ CopyFail(p) \/ SetVersion(p) \/ SetVersionFail(p)
        \/ Start(p) \/ Finally(p)
        \/ Rollback(p) \/ RbStop(p) \/ RbManifest(p) \/ RbRestoreFile(p) \/ RbFail(p)
        \/ RbRefresh(p) \/ RbStart(p)
        \/ Return(p)
    \/ ListBackups(Lister)

SpecBackup == InitBackup /\ [][NextBackup]_vars

\* ------------------------------------------------------------- the version manager alone
\* Versions that callers hand to set_version.
SetInputs == {V200, V210, V210rc, V210x}

\* What the release-index request can give: no response or an HTTP error
\* status; a body that is not JSON; JSON of the wrong shape (not an object,
\* tag_name null, assets not a list); an object without tag_name; a release
\* object whose tag_name, less its leading "v", is `tag`.
Responses ==
    [kind : {"network_error", "not_json", "bad_fields", "no_tag"}, tag : {NoFile}]
    \cup [kind : {"tag"}, tag : {V200, V210, V210x}]

\* release_data.get("tag_name", "").lstrip("v"): the empty string is NoFile.
remote_version_of(resp) == IF resp.kind = "tag" THEN resp.tag ELSE NoFile

\* The exception handlers of check_for_updates that can catch the error a
\* response leads to ("" when nothing is raised): a body that is not JSON
\* raises a RequestException or a plain ValueError, as the requests library
\* in use has it.
check_errors(resp) ==
    CASE resp.kind = "network_error" -> {"Network error"}
      [] resp.kind = "not_json" -> {"Network error", "Update check failed"}
      [] resp.kind = "bad_fields" -> {"Update check failed"}
      [] OTHER -> {""}

\* Mutant: the check records its time but not the available version.
checked_info_time_only(info, time, remote_version, update_available) ==
    [info EXCEPT !.last_update_check = time]

\* The record after check_for_updates' update_version_info(
\* last_update_check=..., available_version=...).
checked_info(info, time, remote_version, update_available) ==
    [info EXCEPT !.last_update_check = time,
                 !.available_version =
                     IF update_available THEN remote_version ELSE NoFile]

InitVersion ==
    /\ inst \in {[f \in InstPaths |-> IF f = VERSION THEN t ELSE V200] @@ NotInstalled :
                     t \in {NoFile, V200, V(2, 0, 0, Newline)}}
    /\ backups = [n \in BackupNames |-> NoBackup]
    /\ service = "running"
    /\ now = 1
    /\ backup_before_update = TRUE
    /\ restart_after_update = TRUE
    /\ current_version = [p \in Procs |-> get_current_version(inst)]
    /\ info_file \in {NoInfo,
                       [present |-> TRUE, version |-> V200, last_update_check |-> 0,
                        available_version |-> NoFile]}
    /\ version_info = [p \in Procs |-> load_version_info(info_file, current_version[p])]
    /\ InitCalls
    /\ cmpArgs = <<ZeroVersion, ZeroVersion, ZeroVersion>>
    /\ cmpOut = <<>>

\* A caller invokes version_manager.set_version(new_version).
SetVersionCall(p) ==
    \E new_version \in SetInputs :
        /\ inst' = [inst EXCEPT ![VERSION] = new_version]
        /\ current_version' = [current_version EXCEPT ![p] = new_version]
        /\ version_info' = [version_info EXCEPT ![p] = set_version_info(@, new_version)]
        /\ info_file' = version_info'[p]
        /\ lastSet' = [by |-> p, version |-> new_version]
        /\ vmOut' = [vmOut EXCEPT ![p] = [NoOut EXCEPT !.call = "set", !.arg = new_version]]
        /\ UNCHANGED <<backups, service, now, cfgVars, tmpVars, cmpVars, dmVars, atCall, bkVars, pc, op,
                       update_root, todo, backup_name, result, hist, failedAt,
                       accepted, verAtCall, wrote, ncalls>>

\* set_version cannot write the VERSION file: it logs and re-raises.
SetVersionCallFail(p) ==
    \E new_version \in SetInputs :
        /\ lastSet' = NoSet
        /\ vmOut' = [vmOut EXCEPT ![p] =
                        [NoOut EXCEPT !.call = "set", !.arg = new_version,
                                      !.error = "raised"]]
        /\ UNCHANGED <<fsVars, cfgVars, tmpVars, cmpVars, dmVars, atCall, bkVars, version_info,
                       info_file, current_version, pc, op, update_root, todo,
                       backup_name, result, hist, failedAt, accepted, verAtCall,
                       wrote, ncalls>>

\* A caller invokes version_manager.get_current_version().
GetCurrentVersion(p) ==
    /\ vmOut' = [vmOut EXCEPT ![p] =
                    [NoOut EXCEPT !.call = "current", !.value = get_current_version(inst)]]
    /\ UNCHANGED <<fsVars, cfgVars, tmpVars, cmpVars, dmVars, atCall, bkVars, version_info, info_file,
                   lastSet, current_version, pc, op, update_root, todo, backup_name,
                   result, hist, failedAt, accepted, verAtCall, wrote, ncalls>>

\* A caller invokes check_for_updates(); the request gets `resp`.
CheckForUpdates(p) ==
    \E resp \in Responses : \E err \in check_errors(resp) :
        LET cur == current_version[p]
            remote_version == remote_version_of(resp)
            update_available == is_newer_version_available(cur, remote_version)
        IN /\ IF err # ""
              THEN /\ vmOut' = [vmOut EXCEPT ![p] =
                          [NoOut EXCEPT !.call = "check", !.kind = resp.kind,
                                        !.error = err, !.current_version = cur]]
                   /\ UNCHANGED <<version_info, info_file>>
              ELSE /\ version_info' = [version_info EXCEPT ![p] =
                          checked_info(@, now, remote_version, update_available)]
                   /\ info_file' = version_info'[p]
                   /\ vmOut' = [vmOut EXCEPT ![p] =
                          [NoOut EXCEPT !.call = "check", !.kind = resp.kind,
                                        !.value = remote_version,
                                        !.current_version = cur,
                                        !.update_available = update_available]]
           /\ lastSet' = NoSet
           /\ UNCHANGED <<fsVars, cfgVars, tmpVars, cmpVars, dmVars, atCall, bkVars, current_version,
                          pc, op, update_root, todo, backup_name, result, hist,
                          failedAt, accepted, verAtCall, wrote, ncalls>>

NextVersion ==
    \E p \in Procs :
        \/ SetVersionCall(p) \/ SetVersionCallFail(p)
        \/ GetCurrentVersion(p)
        \/ CheckForUpdates(p)

SpecVersion == InitVersion /\ [][NextVersion]_vars

\* ------------------------------------------------------------- compare_versions alone
CmpSuffixes == {"", "dev", "rc", "post", "x"}

CmpVersions ==
    {V(a, b, c, sfx) : a \in 0..MaxPart, b \in 0..MaxPart, c \in 0..MaxPart,
                       sfx \in CmpSuffixes}

InitCompare ==
    /\ inst = [f \in InstPaths |-> V200] @@ NotInstalled
    /\ backups = [n \in BackupNames |-> NoBackup]
    /\ service = "running"
    /\ now = 1
    /\ backup_before_update = TRUE
    /\ restart_after_update = TRUE
    /\ current_version = [p \in Procs |-> get_current_version(inst)]
    /\ info_file = NoInfo
    /\ version_info = [p \in Procs |-> load_version_info(info_file, current_version[p])]
    /\ InitCalls
    /\ cmpArgs \in CmpVersions \X CmpVersions \X CmpVersions
    /\ cmpOut = <<>>

\* compare_versions is applied to the pairs of cmpArgs = <<a, b, c>>:
\* cmpOut = <<compare(a,b), compare(b,a), compare(a,a), compare(b,c), compare(a,c)>>.
Compare ==
    /\ cmpOut = <<>>
    /\ cmpOut' = << compare_versions(cmpArgs[1], cmpArgs[2]),
                    compare_versions(cmpArgs[2], cmpArgs[1]),
                    compare_versions(cmpArgs[1], cmpArgs[1]),
                    compare_versions(cmpArgs[2], cmpArgs[3]),
                    compare_versions(cmpArgs[1], cmpArgs[3]) >>
    /\ UNCHANGED <<fsVars, cfgVars, tmpVars, vmVars, bkVars, dmVars, atCall,
                   current_version, pc, op, update_root, todo, backup_name, result,
                   hist, failedAt, accepted, verAtCall, wrote, ncalls, cmpArgs>>

NextCompare == Compare

SpecCompare == InitCompare /\ [][NextCompare]_vars

\* ------------------------------------------------------------- the display manager's rotation
\* One thread calls start_rotation and stop_rotation; every start_rotation
\* that finds no rotation running starts a rotation_worker thread.
updateVars ==
    <<fsVars, cfgVars, tmpVars, cmpVars, vmVars, bkVars, atCall, current_version,
      pc, op, update_root, todo, backup_name, result, hist, failedAt, accepted,
      verAtCall, wrote, ncalls>>

InitRotation ==
    /\ inst = [f \in InstPaths |-> V200] @@ NotInstalled
    /\ backups = [n \in BackupNames |-> NoBackup]
    /\ service = "running"
    /\ now = 1
    /\ backup_before_update = TRUE
    /\ restart_after_update = TRUE
    /\ current_version = [p \in Procs |-> get_current_version(inst)]
    /\ info_file = NoInfo
    /\ version_info = [p \in Procs |-> load_version_info(info_file, current_version[p])]
    /\ InitCalls
    /\ cmpArgs = <<ZeroVersion, ZeroVersion, ZeroVersion>>
    /\ cmpOut = <<>>

\* Threads that have been started and have not returned.
LiveWorkers == {w \in WorkerIds : workers[w] \notin {"unborn", "dead"}}

\* The thread a new threading.Thread is.
NewWorker == CHOOSE w \in WorkerIds :
                 workers[w] = "unborn" /\ \A v \in WorkerIds : v < w => workers[v] # "unborn"

\* DisplayManager.start_rotation
StartRotation ==
    /\ dm_pc = "idle"
    /\ \E w \in WorkerIds : workers[w] = "unborn"
    /\ IF running
       THEN UNCHANGED <<running, rotation_thread, workers>>
       ELSE /\ running' = TRUE
            /\ rotation_thread' = NewWorker
            /\ workers' = [workers EXCEPT ![NewWorker] = "loop"]
    /\ UNCHANGED <<dm_pc, current_image_index, updateVars>>

\* DisplayManager.stop_rotation, up to its call of join.
StopRotation ==
    /\ dm_pc = "idle"
    /\ IF ~running
       THEN UNCHANGED <<running, dm_pc>>
       ELSE /\ running' = FALSE
            /\ dm_pc' = IF rotation_thread # 0 THEN "join" ELSE "idle"
    /\ UNCHANGED <<rotation_thread, workers, current_image_index, updateVars>>

\* rotation_thread.join(timeout=5) returns because the thread has ended.
JoinReturns ==
    /\ dm_pc = "join"
    /\ workers[rotation_thread] = "dead"
    /\ dm_pc' = "idle"
    /\ UNCHANGED <<running, rotation_thread, workers, current_image_index, updateVars>>

\* What a worker can be doing for longer than join's timeout of 5 seconds:
\* refreshing the display inside show_next_image, or sleeping the 10 seconds
\* that follow an exception. (In the waiting loop it looks at `running`
\* every second.)
SlowSteps == {"show", "retry"}

\* rotation_thread.join(timeout=5) returns because the 5 seconds have passed.
JoinTimesOut ==
    /\ dm_pc = "join"
    /\ workers[rotation_thread] \in SlowSteps
    /\ dm_pc' = "idle"
    /\ UNCHANGED <<running, rotation_thread, workers, current_image_index, updateVars>>

\* rotation_worker: the test of `while self.running`.
WorkerLoop(w) ==
    /\ workers[w] = "loop"
    /\ workers' = [workers EXCEPT ![w] = IF running THEN "show" ELSE "dead"]
    /\ UNCHANGED <<running, rotation_thread, dm_pc, current_image_index, updateVars>>

\* rotation_worker: show_next_image shows the image and moves the index on.
WorkerShow(w) ==
    /\ workers[w] = "show"
    /\ current_image_index' = (current_image_index + 1) % NumImages
    /\ workers' = [workers EXCEPT ![w] = "wait"]
    /\ UNCHANGED <<running, rotation_thread, dm_pc, updateVars>>

\* rotation_worker: show_next_image raises; the worker logs and sleeps 10 s.
WorkerShowRaises(w) ==
    /\ workers[w] = "show"
    /\ workers' = [workers EXCEPT ![w] = "retry"]
    /\ UNCHANGED <<running, rotation_thread, dm_pc, current_image_index, updateVars>>

\* rotation_worker: the waiting loop ends, by its break when `running` is
\* found False or after rotation_interval seconds.
WorkerWait(w) ==
    /\ workers[w] = "wait"
    /\ workers' = [workers EXCEPT ![w] = "loop"]
    /\ UNCHANGED <<running, rotation_thread, dm_pc, current_image_index, updateVars>>

\* rotation_worker: the sleep after an exception is over.
WorkerRetry(w) ==
    /\ workers[w] = "retry"
    /\ workers' = [workers EXCEPT ![w] = "loop"]
    /\ UNCHANGED <<running, rotation_thread, dm_pc, current_image_index, updateVars>>

NextRotation ==
    \/ StartRotation \/ StopRotation \/ JoinReturns \/ JoinTimesOut
    \/ \E w \in WorkerIds :
          \/ WorkerLoop(w) \/ WorkerShow(w) \/ WorkerShowRaises(w)
          \/ WorkerWait(w) \/ WorkerRetry(w)

SpecRotation == InitRotation /\ [][NextRotation]_vars

\* ------------------------------------------------------------- claims
\* "v is strictly greater than cur" as the version order defines it.
StrictlyNewer(v, cur) ==
    /\ ~ParseRaises(v)
    /\ ~ParseRaises(cur)
    /\ LexLess(ParseKey(cur), ParseKey(v), 1)

\* perform_update is inside apply_update or has left it successfully.
ReachedApply(p) ==
    \/ pc[p] \in {"bk_mkdir", "bk_src", "bk_ver", "bk_manifest", "stop", "copy", "start"}
    \/ failedAt[p] \in {"backup", "copy", "set_version"}
    \/ result[p].state = "ok"

\* C1: a perform_update that has reached apply_update, or has written any
\* file of the installation, holds a package whose version marker (the one
\* validate_update read) is strictly greater than the caller's current
\* version at validation time; equal, older and unparsable markers never get
\* that far.
C1_OnlyNewerReachesApply ==
    \A p \in Procs :
        (op[p] = "update" /\ (ReachedApply(p) \/ wrote[p] # {}))
            => /\ accepted[p] # NotAccepted
               /\ StrictlyNewer(accepted[p].marker, accepted[p].cur)

C1_Witness ==
    \E p \in Procs : op[p] = "update" /\ SrcFile \in wrote[p]

\* C2: the VERSION file changes only after an Apply step has completed
\* successfully: when the only operation ever called is a perform_update that
\* has returned failure, VERSION still has the content it had at the call.
C2_MarkerChangesOnlyAfterApply ==
    \A p \in Procs :
        (op[p] = "update" /\ pc[p] = "done" /\ result[p].state = "fail" /\ ncalls = 1)
            => inst[VERSION] = verAtCall[p]

\* C3: no step ever writes the installation's config/settings.json, which
\* the exclusion pattern config/*.json covers: it keeps its content, and it
\* is not created when it does not exist.
C3_ExcludedFileUntouched == [][inst'[CfgFile] = inst[CfgFile]]_vars

\* An apply has come across the package's config/settings.json, whose
\* content differs from the installation's, and is past it.
C3_Witness ==
    \E p \in Procs :
        /\ pc[p] = "copy"
        /\ CfgFile \notin todo[p]
        /\ update_root[p] \o CfgFile \in DOMAIN extracted[p].tree
        /\ extracted[p].tree[update_root[p] \o CfgFile] # inst[CfgFile]

\* C4: when perform_update has returned, with success or with the failure of
\* any step, the scratch directory it created is gone; a failed download
\* returns a failure result with an error.
C4_NoScratchDirLeft ==
    \A p \in Procs :
        (op[p] = "update" /\ pc[p] = "done")
            => /\ ~tmpExists[p]
               /\ result[p].state \in {"ok", "fail"}
               /\ failedAt[p] = "download"
                    => result[p].state = "fail" /\ result[p].error # ""

C4_Witness ==
    \E p \in Procs : op[p] = "update" /\ pc[p] = "done" /\ failedAt[p] = "download"

\* The process is in the Stopping, Applying/Restoring or Starting phase of an
\* update or a rollback.
Mutating(p) ==
    pc[p] \in {"stop", "copy", "start", "rb_stop", "rb_manifest", "rb_restore", "rb_start"}

\* C5: two invocations of perform_update / rollback_to_backup never have
\* their Stopping/Applying/Restoring phases interleaved.
C5_OneOperationAtATime ==
    \A p, q \in Procs : (p # q) => ~(Mutating(p) /\ Mutating(q))

\* The place of a step in perform_update's pipeline.
StepRank(step) ==
    CASE step = "download" -> 1
      [] step = "extract" -> 2
      [] step \in {"validate", "validate_io"} -> 3
      [] step = "backup" -> 4
      [] step = "stop" -> 5
      [] step = "copy" -> 6
      [] step = "set_version" -> 7
      [] step = "start" -> 8

\* C6: once a step of perform_update has failed, no later step of the
\* pipeline is executed, and the caller gets a result with success = false
\* and an error.
C6_FailFast ==
    \A p \in Procs :
        (op[p] = "update" /\ failedAt[p] # "none")
            => /\ pc[p] \in {"finally", "done"}
               /\ result[p].state = "fail"
               /\ result[p].error # ""
               /\ \A i \in DOMAIN hist[p] : StepRank(hist[p][i]) <= StepRank(failedAt[p])
               /\ failedAt[p] \notin {hist[p][i] : i \in DOMAIN hist[p]} \/ failedAt[p] = "copy"

\* A copy failed after another file had been copied, and the call has returned.
C6_Witness ==
    \E p \in Procs :
        /\ op[p] = "update" /\ pc[p] = "done"
        /\ failedAt[p] = "copy" /\ wrote[p] # {}

HasStep(p, step) == \E i \in DOMAIN hist[p] : hist[p][i] = step

\* C7: the steps of a perform_update are executed in the order download,
\* extract, validate, backup, stop, copies, set_version, start; a successful
\* one has downloaded, extracted, validated and stopped the service, has
\* taken the backup when backups are configured, and has done each once.
C7_UpdateStepOrder ==
    \A p \in Procs :
        op[p] = "update"
            => /\ \A i, j \in DOMAIN hist[p] :
                    i < j => /\ StepRank(hist[p][i]) <= StepRank(hist[p][j])
                             /\ hist[p][i] = hist[p][j] => hist[p][i] = "copy"
               /\ result[p].state = "ok"
                    => /\ \A st \in {"download", "extract", "validate", "stop"} : HasStep(p, st)
                       /\ backup_before_update => HasStep(p, "backup")

\* A successful update that took a backup, copied files, set the version and
\* started the service.
C7_Witness ==
    \E p \in Procs :
        /\ op[p] = "update" /\ pc[p] = "done" /\ result[p].state = "ok"
        /\ HasStep(p, "backup") /\ HasStep(p, "copy")
        /\ HasStep(p, "set_version") /\ HasStep(p, "start")

\* The place of a step in rollback_to_backup.
RbStepRank(step) ==
    CASE step = "stop" -> 1
      [] step = "restore" -> 2
      [] step = "refresh" -> 3
      [] step = "start" -> 4

\* C8: a rollback_to_backup executes stop, the restores, the version
\* refresh and start in that order; a successful one has done stop, refresh
\* and start; one that failed during the restore has not refreshed the
\* version and returns failure.
C8_RollbackStepOrder ==
    \A p \in Procs :
        op[p] = "rollback"
            => /\ \A i, j \in DOMAIN hist[p] :
                    i < j => /\ RbStepRank(hist[p][i]) <= RbStepRank(hist[p][j])
                             /\ hist[p][i] = hist[p][j] => hist[p][i] = "restore"
               /\ result[p].state = "ok"
                    => \A st \in {"stop", "refresh", "start"} : HasStep(p, st)
               /\ failedAt[p] = "restore"
                    => /\ ~HasStep(p, "refresh") /\ ~HasStep(p, "start")
                       /\ pc[p] = "done" /\ result[p].state = "fail"

\* A successful rollback that restored files.
C8_Witness ==
    \E p \in Procs :
        /\ op[p] = "rollback" /\ pc[p] = "done" /\ result[p].state = "ok"
        /\ HasStep(p, "restore")

\* C9: compare is antisymmetric, reflexive and transitive on the versions
\* MAJOR.MINOR.PATCH[-SUFFIX].
C9_CompareTotalOrder ==
    cmpOut # <<>>
        => /\ cmpOut[1] = -cmpOut[2]
           /\ cmpOut[3] = 0
           /\ (cmpOut[1] <= 0 /\ cmpOut[4] <= 0) => cmpOut[5] <= 0

\* C10: validate_update passes exactly when the walk finds a VERSION file
\* whose version is strictly newer than the caller's current version,
\* whether or not a critical file is missing from the package.
C10_ValidateIffNewerMarker ==
    \A p \in Procs :
        LET tree == extracted[p].tree
            newer == {vf \in FirstVersionFiles(tree, <<>>) :
                         StrictlyNewer(tree[vf], current_version[p])}
        IN /\ (op[p] = "update" /\ pc[p] = "finally" /\ failedAt[p] = "validate")
                => newer = {}
           /\ (op[p] = "update" /\ pc[p] = apply_next("entry", backup_before_update))
                => /\ newer # {}
                   /\ accepted[p].marker \in {tree[vf] : vf \in newer}

\* A package that lacks the critical file has passed validation.
C10_Witness ==
    \E p \in Procs :
        /\ op[p] = "update" /\ pc[p] = apply_next("entry", backup_before_update)
        /\ MissingCritical(extracted[p].tree) # {}
        /\ hist[p][Len(hist[p])] = "validate"

C12_BackupRestoreRoundTrip ==
    \A p \in Procs :
        (op[p] = "rollback" /\ lastBackup.name # 0 /\ backup_name[p] = lastBackup.name)
            => inst = lastBackup.inst

\* An updated installation was backed up and the backup restored in full.
C12_Witness ==
    \E p \in Procs :
        /\ op[p] = "rollback" /\ pc[p] = "done" /\ result[p].state = "ok"
        /\ backup_name[p] = lastBackup.name
        /\ wrote[p] = {SrcFile, VERSION}
        /\ inst[SrcFile] = V210

\* C13: list_backups returns the backups with the one created later first,
\* whatever their names; directories without a manifest or with one that
\* cannot be read are left out.
C13_ListNewestFirst ==
    listing.called
        => /\ \A i, j \in DOMAIN listing.entries :
                 i < j => listing.seq[listing.entries[i].name]
                              > listing.seq[listing.entries[j].name]
           /\ {listing.entries[i].name : i \in DOMAIN listing.entries}
                  = {n \in DOMAIN listing.seen : listing.seen[n] = "read"}

\* C14: once create_backup has returned for a name, no step of any operation
\* changes that backup's files or manifest, or removes it.
C14_BackupImmutable ==
    [][\A n \in BackupNames :
          backups[n].seq > 0
              => /\ backups'[n].exists
                 /\ backups'[n].files = backups[n].files
                 /\ backups'[n].manifest = backups[n].manifest]_vars

\* C15: the file list in the manifest of every backup for which create_backup
\* has returned is the set of the files copied into the backup.
C15_ManifestListsFiles ==
    \A n \in BackupNames :
        backups[n].seq > 0
            => /\ backups[n].manifest.present
               /\ backups[n].manifest.files = DOMAIN backups[n].files

\* C16: when create_backup has failed, the backup directory of that name does
\* not exist; list_backups shows only backups for which a create_backup has
\* returned.
C16_FailedBackupRemoved ==
    /\ \A p \in {Operator} :
         failedAt[p] = "backup"
             => /\ ~backups[backup_name[p]].exists
                /\ result[p].state = "fail"
    /\ listing.called
         => \A i \in DOMAIN listing.entries : listing.seq[listing.entries[i].name] > 0

\* A direct create_backup call has failed and raised to its caller.
C16_Witness ==
    \E p \in {Operator} :
        /\ op[p] = "backup" /\ pc[p] = "done" /\ failedAt[p] = "backup"
        /\ backup_name[p] # 0

\* C17: when extract_update has failed, perform_update returns failure and
\* the `extracted` directory holds nothing of the archive once the error has
\* reached extract_update's caller.
C17_ExtractFailureLeavesNothing ==
    \A p \in Procs :
        failedAt[p] = "extract"
            => /\ result[p].state = "fail"
               /\ extracted[p].tree = EmptyTree

BackupRun(p) ==
    \/ pc[p] \in {"bk_mkdir", "bk_src", "bk_ver", "bk_manifest"}
    \/ failedAt[p] = "backup"
    \/ HasStep(p, "backup")

\* C19: a perform_update whose package has passed validation runs the backup
\* step exactly when backup_before_update is set, and one that succeeds
\* runs the start step exactly when restart_after_update is set; its result
\* is the success result with the new version either way.
C19_OptionalSteps ==
    \A p \in Procs :
        op[p] = "update"
            => /\ BackupRun(p) => accepted[p] # NotAccepted
               /\ accepted[p] # NotAccepted => (BackupRun(p) <=> backup_before_update)
               /\ HasStep(p, "start") => restart_after_update /\ result[p].state = "ok"
               /\ result[p].state = "ok"
                    => /\ HasStep(p, "start") <=> restart_after_update
                       /\ result[p] = Success(current_version[p])
                       /\ failedAt[p] = "none"

\* An update has succeeded without the backup step and without the start step.
C19_Witness ==
    \E p \in Procs :
        /\ op[p] = "update" /\ pc[p] = "done" /\ result[p].state = "ok"
        /\ ~backup_before_update /\ ~restart_after_update
        /\ SrcFile \in wrote[p]

\* C20: no update or rollback fails in its stop or start step, and one in
\* which no other step has failed goes on past the service calls and
\* returns success, whether or not the service obeyed.
C20_ServiceFailureNeverAborts ==
    \A p \in Procs :
        op[p] \in {"update", "rollback"}
            => /\ failedAt[p] \notin {"stop", "start"}
               /\ (HasStep(p, "stop") /\ pc[p] \in {"finally", "done"} /\ failedAt[p] = "none")
                    => /\ result[p].state = "ok"
                       /\ (op[p] = "rollback" \/ restart_after_update)
                            => HasStep(p, "start")

\* The only operation called has stopped the service and returned success
\* after its start step, and the service is still stopped: the start failed.
C20_Witness ==
    \E p \in Procs :
        /\ ncalls = 1 /\ pc[p] = "done" /\ result[p].state = "ok"
        /\ HasStep(p, "start") /\ service = "stopped"

\* An update or a rollback of p has returned to its caller.
Returned(p) == pc[p] = "done" /\ op[p] \in {"update", "rollback"}

\* C21 (the version in memory is the VERSION file): whenever perform_update
\* or rollback_to_backup has returned, with success or with failure, the
\* caller's version_manager.current_version (what get_version returns) is the
\* stripped content of the VERSION file on disk.
C21_VersionInMemoryIsOnDisk ==
    Returned(Operator) => current_version[Operator] = get_current_version(inst)

\* apply_update has returned True to perform_update, whose scratch directory
\* still holds the package.
AppliedOk(p) ==
    op[p] = "update" /\ pc[p] \in {"start", "finally"} /\ failedAt[p] = "none"

\* The relative path matches one of the exclusion globs.
GlobExcluded(rel_path) ==
    \E pattern \in excluded_patterns : PathMatch(rel_path, pattern)

\* C22 (what a successful apply installs): after apply_update has returned
\* True, every file under the package's content root whose relative path
\* matches none of the exclusion globs is in the installation, at the same
\* relative path and with the package's content: only files that match a glob
\* are skipped.
C22_OnlyGlobMatchesSkipped ==
    AppliedOk(Operator) =>
        \A f \in FilesUnder(extracted[Operator].tree, update_root[Operator]) :
            ~GlobExcluded(f) =>
                inst[f] = extracted[Operator].tree[update_root[Operator] \o f]

\* perform_update of p has returned success.
UpdateSucceeded(p) ==
    op[p] = "update" /\ pc[p] = "done" /\ result[p].state = "ok"

\* C23 (version monotonicity): whenever perform_update returns success, the
\* current version is the version marker validate_update accepted for the
\* package, and it is strictly greater than the current version before the
\* call, wherever the marker sits in the package tree.
C23_SuccessInstallsAcceptedMarker ==
    UpdateSucceeded(Operator) =>
        /\ current_version[Operator] = accepted[Operator].marker
        /\ get_current_version(inst) = accepted[Operator].marker
        /\ StrictlyNewer(current_version[Operator],
                         atCall[Operator].current_version)

\* An update with restart_after_update enabled, or a rollback, of p has
\* returned after it had called stop_services.
ReturnedAfterStop(p) ==
    /\ Returned(p)
    /\ HasStep(p, "stop")
    /\ op[p] = "update" => restart_after_update

\* C24 (the service is started again, as claimed): whenever perform_update
\* (with restart_after_update enabled) or rollback_to_backup has stopped the
\* service, it has called start_services before it returns, whether the
\* Applying or Restoring phase succeeded or failed.
C24_StoppedServiceAlwaysStarted ==
    \A p \in Procs : ReturnedAfterStop(p) => HasStep(p, "start")

\* C24 (amended): whenever perform_update (with restart_after_update enabled)
\* or rollback_to_backup has stopped the service, it has called
\* start_services before it returns exactly when the Applying or Restoring
\* phase succeeded; when that phase failed it returns its failure result
\* without calling start_services.
C24_StartedIffPhaseSucceeded ==
    \A p \in Procs :
        ReturnedAfterStop(p) =>
            /\ HasStep(p, "start") <=> failedAt[p] = "none"
            /\ failedAt[p] = "none" <=> result[p].state = "ok"
            /\ failedAt[p] # "none" => failedAt[p] \in {"copy", "set_version", "manifest", "restore"}

C24_Witness ==
    \E p \in Procs :
        /\ ReturnedAfterStop(p)
        /\ op[p] = "update"
        /\ HasStep(p, "copy")
        /\ HasStep(p, "start")
        /\ result[p].state = "ok"

\* The files create_backup copies: the source tree and the VERSION file.
BackedUp(fs) == {f \in DOMAIN fs : fs[f] # NoFile /\ (f = VERSION \/ f[1] = "src")}

\* C25 (a successful update leaves a backup of what it replaced): whenever
\* perform_update returns success with backup_before_update enabled, the
\* backup that invocation created exists, its manifest's version is the
\* version that was current before the update, and its files are the source
\* tree and the version marker as they were before the update.
C25_SuccessfulUpdateHasBackup ==
    (UpdateSucceeded(Operator) /\ backup_before_update) =>
        LET b == backups[backup_name[Operator]]
            before == atCall[Operator]
        IN /\ backup_name[Operator] \in BackupNames
           /\ b.exists
           /\ b.manifest.present
           /\ b.manifest.version = before.current_version
           /\ DOMAIN b.files = BackedUp(before.inst)
           /\ \A f \in DOMAIN b.files : b.files[f] = before.inst[f]

C25_Witness ==
    /\ UpdateSucceeded(Operator)
    /\ backup_before_update
    /\ HasStep(Operator, "backup")
    /\ HasStep(Operator, "set_version")
    /\ inst[SrcFile] # atCall[Operator].inst[SrcFile]

\* The steps of perform_update that come before stop_services.
EarlySteps == {"download", "extract", "validate", "validate_io", "backup"}

\* C26 (an early failure changes nothing): when perform_update fails in
\* Downloading, Extracting, Validating or BackingUp, the installation's
\* source tree and version marker and the caller's in-memory current version
\* are as they were when it was called, and that invocation has never
\* stopped the service.
C26_EarlyFailureChangesNothing ==
    (op[Operator] = "update" /\ failedAt[Operator] \in EarlySteps) =>
        /\ inst = atCall[Operator].inst
        /\ current_version[Operator] = atCall[Operator].current_version
        /\ service = atCall[Operator].service
        /\ wrote[Operator] = {}
        /\ ~HasStep(Operator, "stop")
        /\ ~HasStep(Operator, "start")

C26_Witness ==
    /\ op[Operator] = "update"
    /\ pc[Operator] = "done"
    /\ failedAt[Operator] = "backup"
    /\ result[Operator].state = "fail"

\* rollback_to_backup of p, called after a successful perform_update with the
\* backup that update made, has returned success.
RolledBackUpdate(p) ==
    /\ op[p] = "rollback"
    /\ pc[p] = "done"
    /\ result[p].state = "ok"
    /\ lastUpdate.name = backup_name[p]

\* C27 (a rollback undoes the update): after a successful perform_update with
\* backup enabled and then a successful rollback_to_backup to the backup that
\* update made, the source tree and the version marker are as they were
\* before the update: every backed-up file has its content of then, the
\* current version is the version of then, and no file that the update
\* brought remains.
C27_RollbackUndoesUpdate ==
    RolledBackUpdate(Operator) =>
        /\ \A f \in DOMAIN inst :
              (f = VERSION \/ f[1] = "src") => inst[f] = lastUpdate.before.inst[f]
        /\ current_version[Operator] = lastUpdate.before.current_version
        /\ get_current_version(inst) = lastUpdate.before.current_version

\* rollback_to_backup of p has returned success.
RollbackSucceeded(p) ==
    op[p] = "rollback" /\ pc[p] = "done" /\ result[p].state = "ok"

\* C28 (version_info.json follows the marker): after every successful
\* perform_update and every successful rollback_to_backup, the version field
\* of config/version_info.json, once the file has been written, is the
\* installation's current version marker.
C28_InfoFileVersionIsMarker ==
    ((UpdateSucceeded(Operator) \/ RollbackSucceeded(Operator)) /\ info_file.present) =>
        info_file.version = get_current_version(inst)

\* C29 (rolling back to a backup that does not exist): rollback_to_backup
\* called with a name for which no backup exists returns failure at once: it
\* neither stops nor starts the service and it changes no file of the
\* installation, nor the version marker, nor the in-memory current version.
C29_MissingBackupChangesNothing ==
    (op[Operator] = "rollback" /\ ~backups[backup_name[Operator]].exists) =>
        /\ pc[Operator] = "done"
        /\ result[Operator] = Failure("Backup not found")
        /\ hist[Operator] = <<>>
        /\ wrote[Operator] = {}
        /\ inst = atCall[Operator].inst
        /\ service = atCall[Operator].service
        /\ current_version[Operator] = atCall[Operator].current_version

C29_Witness ==
    /\ op[Operator] = "rollback"
    /\ ~backups[backup_name[Operator]].exists
    /\ failedAt[Operator] = "exists"
    /\ \E n \in BackupNames : backups[n].exists

\* C30 (one rotation worker at a time): after any sequence of start_rotation
\* and stop_rotation calls at most one rotation worker thread is live: a
\* worker started by a start_rotation issued after stop_rotation has
\* returned never runs together with a worker started earlier, even when
\* stop_rotation's join timed out.
C30_AtMostOneRotationWorker ==
    Cardinality(LiveWorkers) <= 1

====
